---- MODULE Spec2Model ----
(***************************************************************************)
(* Model of src/err_netconf.c: the translation of sysrepo error messages   *)
(* into NETCONF errors.  Text is a sequence of one-character strings, a    *)
(* pointer into a text is a 0-based offset, and every call on the          *)
(* destination session's error interface is logged in `sink`.  The file    *)
(* includes <assert.h> and does not define NDEBUG: a failed assertion ends *)
(* the call.  An operation the C standard leaves undefined is recorded in  *)
(* `ub` and followed by every outcome a build may give it.                 *)
(***************************************************************************)
EXTENDS Integers, Sequences, FiniteSets, TLC

\* Largest sysrepo session id the session registry may hold.
MaxSessId == 2
\* Longest path text that follows a location marker in a message.
MaxPathLen == 3

VARIABLES
    message,    \* err_info->err[0].message of the failed operation
    registry,   \* the NETCONF sessions the server currently holds
    sink,       \* calls made on the event session's error interface
    lookups,    \* sysrepo ids the session registry was asked for
    op,         \* the translator that was called
    path,       \* np_err_sr2nc_edit's local `path`
    ub,         \* the undefined operation the call went through, if any
    pc          \* where the call is or ended

vars == <<message, registry, sink, lookups, op, path, ub, pc>>

----------------------------------------------------------------------------
(* C values *)

\* An absent optional argument (a NULL string or session), and a present one.
NULL == <<>>
Some(x) == <<x>>

\* The NULL result of a search in a text, whose hits are offsets >= 0.
NullPtr == -1

\* size_t arithmetic wraps; every text is far shorter than the modulus.
SizeModulus == 2^30

Min(S) == CHOOSE x \in S : \A y \in S : x <= y
Max(S) == CHOOSE x \in S : \A y \in S : x >= y

----------------------------------------------------------------------------
(* libc, as the translators use it *)

strlen(s) == Len(s)

\* The text a pointer at offset `off` of s designates.
At(s, off) == SubSeq(s, off + 1, Len(s))

\* Offset of the first occurrence of needle in haystack, or NullPtr.
strstr(haystack, needle) ==
    LET hits == {i \in 0..(Len(haystack) - Len(needle)) :
                    SubSeq(haystack, i + 1, i + Len(needle)) = needle}
    IN  IF hits = {} THEN NullPtr ELSE Min(hits)

\* Offset of the first c at or after offset `from`, or NullPtr.
strchr(s, from, c) ==
    LET hits == {i \in from..(Len(s) - 1) : s[i + 1] = c}
    IN  IF hits = {} THEN NullPtr ELSE Min(hits)

\* A mutant of strrchr: the first c is found, not the last.
strrchr_first(s, c) ==
    LET hits == {i \in 0..(Len(s) - 1) : s[i + 1] = c}
    IN  IF hits = {} THEN NullPtr ELSE Min(hits)

\* Offset of the last c in s, or NullPtr.
strrchr(s, c) ==
    LET hits == {i \in 0..(Len(s) - 1) : s[i + 1] = c}
    IN  IF hits = {} THEN NullPtr ELSE Max(hits)

\* A mutant of strndup: one character more is copied.
strndup_one_more(s, n) ==
    SubSeq(s, 1, IF n + 1 < Len(s) THEN n + 1 ELSE Len(s))

\* A copy of at most n characters of s.
strndup(s, n) == SubSeq(s, 1, IF n < Len(s) THEN n ELSE Len(s))

\* size_t subtraction.
SizeSub(a, b) == (a - b) % SizeModulus

\* strncmp(s, lit, n) == 0, for a literal of at least n characters.
strncmp_eq(s, lit, n) ==
    /\ Len(s) >= n
    /\ SubSeq(s, 1, n) = SubSeq(lit, 1, n)

IsSpace(c) == c \in {" ", "\t", "\n", "\r", "\f"}
IsDigit(c) == c \in {"0", "1", "2", "3", "4", "5", "6", "7", "8", "9"}
DigitVal(c) ==
    CASE c = "0" -> 0 [] c = "1" -> 1 [] c = "2" -> 2 [] c = "3" -> 3
      [] c = "4" -> 4 [] c = "5" -> 5 [] c = "6" -> 6 [] c = "7" -> 7
      [] c = "8" -> 8 [] c = "9" -> 9
DigitChar(d) == <<"0", "1", "2", "3", "4", "5", "6", "7", "8", "9">>[d + 1]

RECURSIVE SkipSpace(_, _)
SkipSpace(s, i) ==
    IF i < Len(s) /\ IsSpace(s[i + 1]) THEN SkipSpace(s, i + 1) ELSE i

RECURSIVE Digits(_, _, _)
Digits(s, i, acc) ==
    IF i < Len(s) /\ IsDigit(s[i + 1])
    THEN Digits(s, i + 1, acc * 10 + DigitVal(s[i + 1]))
    ELSE acc

\* A mutant of atoi: it reads the first digit only.
atoi_first_digit(s, from) ==
    LET i == SkipSpace(s, from)
    IN  IF i < Len(s) /\ IsDigit(s[i + 1]) THEN DigitVal(s[i + 1]) ELSE 0

\* atoi(s + from): blanks, an optional sign, then the digits there are.
atoi(s, from) ==
    LET i == SkipSpace(s, from)
        signed == i < Len(s) /\ s[i + 1] \in {"+", "-"}
        j == IF signed THEN i + 1 ELSE i
        n == Digits(s, j, 0)
    IN  IF signed /\ s[i + 1] = "-" THEN 0 - n ELSE n

\* sprintf(buf, "%" PRIu32, n)
RECURSIVE sprintf_u32(_)
sprintf_u32(n) ==
    IF n < 10 THEN <<DigitChar(n)>>
    ELSE sprintf_u32(n \div 10) \o <<DigitChar(n % 10)>>

----------------------------------------------------------------------------
(* The session registry and the error interface of a sysrepo session *)

\* The NETCONF session of the sysrepo session sr_id, or NULL.
np_get_nc_sess_by_id(sr_id) ==
    IF \E s \in registry : s.sr_id = sr_id
    THEN Some(CHOOSE s \in registry : s.sr_id = sr_id)
    ELSE NULL

nc_session_get_id(nc_sess) == nc_sess.nc_id

\* One NETCONF error set on the session whose calls are logged in s.
sr_session_set_netconf_error(s, type, tag, app_tag, err_path, msg, info) ==
    Append(s, [call |-> "set_netconf_error", type |-> type, tag |-> tag,
               app_tag |-> app_tag, path |-> err_path, msg |-> msg,
               info |-> info])

\* A mutant of sr_session_dup_error: the copy is left out.
dup_error_dropped(s, err) == s

\* The error of the source session copied as it is.
sr_session_dup_error(s, err) ==
    Append(s, [call |-> "dup_error", err |-> err])

----------------------------------------------------------------------------
(* Texts of the source *)

\* A mutant of LockedMarker: the blank that ends the marker is lost.
LockedMarkerTrimmed == <<"D","S","-","l","o","c","k","e","d"," ","b","y"," ","s","e","s","s","i","o","n">>
LockedMarker == <<"D","S","-","l","o","c","k","e","d"," ","b","y"," ","s","e","s","s","i","o","n"," ">>
LockDeniedMsg == <<"A","c","c","e","s","s"," ","t","o"," ","t","h","e"," ","r","e","q","u","e","s","t","e","d"," ","l","o","c","k"," ","i","s"," ","d","e","n","i","e","d"," ","b","e","c","a","u","s","e"," ","t","h","e"," ","l","o","c","k"," ","i","s"," ","c","u","r","r","e","n","t","l","y"," ","h","e","l","d"," ","b","y"," ","a","n","o","t","h","e","r"," ","e","n","t","i","t","y",".">>
InUseMsg == <<"T","h","e"," ","r","e","q","u","e","s","t"," ","r","e","q","u","i","r","e","s"," ","a"," ","r","e","s","o","u","r","c","e"," ","t","h","a","t"," ","a","l","r","e","a","d","y"," ","i","s"," ","i","n"," ","u","s","e",".">>

DataLocation == <<"d","a","t","a"," ","l","o","c","a","t","i","o","n"," ">>
SchemaLocation == <<"S","c","h","e","m","a"," ","l","o","c","a","t","i","o","n"," ">>
UniquePrefix == <<"U","n","i","q","u","e"," ","d","a","t","a"," ","l","e","a","f","(","s",")">>
TooManyPrefix == <<"T","o","o"," ","m","a","n","y">>
TooFewPrefix == <<"T","o","o"," ","f","e","w">>
MustPrefix == <<"M","u","s","t"," ","c","o","n","d","i","t","i","o","n">>
LeafrefPrefix == <<"I","n","v","a","l","i","d"," ","l","e","a","f","r","e","f"," ","v","a","l","u","e">>
LeafrefReason == <<"n","o"," ","e","x","i","s","t","i","n","g"," ","t","a","r","g","e","t"," ","i","n","s","t","a","n","c","e">>
InstidPrefix == <<"I","n","v","a","l","i","d"," ","i","n","s","t","a","n","c","e","-","i","d","e","n","t","i","f","i","e","r">>
InstidReason == <<"r","e","q","u","i","r","e","d"," ","i","n","s","t","a","n","c","e"," ","n","o","t"," ","f","o","u","n","d">>
ChoicePrefix == <<"M","a","n","d","a","t","o","r","y"," ","c","h","o","i","c","e">>
UniqueMsg == <<"U","n","i","q","u","e"," ","c","o","n","s","t","r","a","i","n","t"," ","v","i","o","l","a","t","e","d",".">>
TooManyMsg == <<"T","o","o"," ","m","a","n","y"," ","e","l","e","m","e","n","t","s",".">>
TooFewMsg == <<"T","o","o"," ","f","e","w"," ","e","l","e","m","e","n","t","s",".">>
ChoiceMsg == <<"M","i","s","s","i","n","g"," ","m","a","n","d","a","t","o","r","y"," ","c","h","o","i","c","e",".">>
\* A mutant of LeafrefMsg: the text of the instance-identifier rule is used.
LeafrefMsg_as_instid(value) ==
    <<"R","e","q","u","i","r","e","d"," ","i","n","s","t","a","n","c","e","-","i","d","e","n","t","i","f","i","e","r"," ","\"">> \o value \o <<"\""," ","m","i","s","s","i","n","g",".">>
LeafrefMsg(value) ==
    <<"R","e","q","u","i","r","e","d"," ","l","e","a","f","r","e","f"," ","t","a","r","g","e","t"," ","w","i","t","h"," ","v","a","l","u","e"," ","\"">> \o value \o <<"\""," ","m","i","s","s","i","n","g",".">>
InstidMsg(value) ==
    <<"R","e","q","u","i","r","e","d"," ","i","n","s","t","a","n","c","e","-","i","d","e","n","t","i","f","i","e","r"," ","\"">> \o value \o <<"\""," ","m","i","s","s","i","n","g",".">>

----------------------------------------------------------------------------
(* Inputs *)

\* The NETCONF id of the session whose sysrepo id is i: the two differ.
NcIdOf(i) == 9 * i - 4

Registries ==
    {{[sr_id |-> i, nc_id |-> NcIdOf(i)] : i \in S} : S \in SUBSET (1..MaxSessId)}

\* What may follow the marker: ids the registry may know, ids it does not,
\* and text that is no number.
Numerals ==
    {sprintf_u32(n) : n \in 0..(MaxSessId + 1)}
        \cup {<<"1","2">>, <<"+","2">>, <<" ","1">>, <<"x">>, <<>>}

LockMessages ==
    {pre \o LockedMarker \o num \o post :
        pre \in {<<>>, <<"M","o","d","u","l","e"," ","\"","m","\""," ","i","s"," ">>}, num \in Numerals,
        post \in {<<>>, <<".">>}}
      \cup {<<"M","o","d","u","l","e"," ","\"","m","\""," ","i","s"," ","D","S","-","l","o","c","k","e","d"," ","b","y"," ","s","e","s","s","i","o","n">> \o num : num \in Numerals}
      \cup {<<"D","S","-","l","o","c","k","e","d"," ","b","y"," ","s","e","s","s","i","o","n">>, <<"M","o","d","u","l","e"," ","\"","m","\""," ","i","s"," ","l","o","c","k","e","d",".">>, <<>>}

\* The path texts a validator may report, well-formed or not.
PathTexts == UNION {[1..n -> {"/", "a"}] : n \in 0..MaxPathLen}

\* What follows the sentence of a message: nothing, or a location annotation
\* naming one or both locations, closed by two characters, by one or by none.
Locations ==
    {<<>>}
      \cup {<<" ","(","d","a","t","a"," ","l","o","c","a","t","i","o","n"," ">> \o p \o <<".",")">> : p \in PathTexts}
      \cup {<<" ","(","S","c","h","e","m","a"," ","l","o","c","a","t","i","o","n"," ">> \o p \o <<".",")">> : p \in PathTexts}
      \cup {<<" ","S","c","h","e","m","a"," ","l","o","c","a","t","i","o","n"," ">> \o p \o <<".">> : p \in PathTexts}
      \cup {<<" ","d","a","t","a"," ","l","o","c","a","t","i","o","n"," ">> \o p : p \in PathTexts}
      \cup {<<" ","(","S","c","h","e","m","a"," ","l","o","c","a","t","i","o","n"," ","/","s",","," ","d","a","t","a"," ","l","o","c","a","t","i","o","n"," ">> \o p \o <<".",")">> :
                p \in PathTexts}
      \cup {<<" ","(","d","a","t","a"," ","l","o","c","a","t","i","o","n"," ">> \o p \o <<","," ","S","c","h","e","m","a"," ","l","o","c","a","t","i","o","n"," ","/","s",".",")">> :
                p \in PathTexts}

Sentences ==
    { <<"U","n","i","q","u","e"," ","d","a","t","a"," ","l","e","a","f","(","s",")"," ","\"","k","\""," ","n","o","t"," ","s","a","t","i","s","f","i","e","d"," ","i","n"," ","\"","x","\""," ","a","n","d"," ","\"","y","\"",".">>,
      <<"U","n","i","q","u","e"," ","d","a","t","a"," ","l","e","a","f"," ","\"","k","\""," ","n","o","t"," ","s","a","t","i","s","f","i","e","d",".">>,
      <<"T","o","o"," ","m","a","n","y"," ","\"","l","\""," ","i","n","s","t","a","n","c","e","s",".">>,
      <<"T","o","o"," ","f","e","w"," ","\"","l","\""," ","i","n","s","t","a","n","c","e","s",".">>,
      <<"T","o","o"," ","f","a","s","t",".">>,
      <<"M","u","s","t"," ","c","o","n","d","i","t","i","o","n"," ","\"","c","\""," ","n","o","t"," ","s","a","t","i","s","f","i","e","d",".">>,
      <<"M","u","s","t"," ","c","o","n","d","i","t","i","o","n"," ","\"","f","(","c",")","\""," ","n","o","t"," ","s","a","t","i","s","f","i","e","d",".">>,
      <<"I","n","v","a","l","i","d"," ","l","e","a","f","r","e","f"," ","v","a","l","u","e"," ","\"","f","o","o","\""," ","-"," ","n","o"," ","e","x","i","s","t","i","n","g"," ","t","a","r","g","e","t"," ","i","n","s","t","a","n","c","e"," ","\"","/","t","\"",".">>,
      <<"I","n","v","a","l","i","d"," ","l","e","a","f","r","e","f"," ","v","a","l","u","e"," ","\"","f","o","o"," ","-"," ","n","o"," ","e","x","i","s","t","i","n","g"," ","t","a","r","g","e","t"," ","i","n","s","t","a","n","c","e",".">>,
      <<"I","n","v","a","l","i","d"," ","l","e","a","f","r","e","f"," ","v","a","l","u","e",":"," ","f","o","o"," ","-"," ","n","o"," ","e","x","i","s","t","i","n","g"," ","t","a","r","g","e","t"," ","i","n","s","t","a","n","c","e"," ","\"","/","t","\"",".">>,
      <<"I","n","v","a","l","i","d"," ","l","e","a","f","r","e","f"," ","v","a","l","u","e"," ","\"","f","o","o","\""," ","-"," ","w","r","o","n","g"," ","t","y","p","e",".">>,
      <<"I","n","v","a","l","i","d"," ","i","n","s","t","a","n","c","e","-","i","d","e","n","t","i","f","i","e","r"," ","\"","/","i","\""," ","v","a","l","u","e"," ","-"," ","r","e","q","u","i","r","e","d"," ","i","n","s","t","a","n","c","e"," ","n","o","t"," ","f","o","u","n","d",".">>,
      <<"I","n","v","a","l","i","d"," ","i","n","s","t","a","n","c","e","-","i","d","e","n","t","i","f","i","e","r"," ","\"","/","i"," ","v","a","l","u","e"," ","-"," ","r","e","q","u","i","r","e","d"," ","i","n","s","t","a","n","c","e"," ","n","o","t"," ","f","o","u","n","d",".">>,
      <<"I","n","v","a","l","i","d"," ","i","n","s","t","a","n","c","e","-","i","d","e","n","t","i","f","i","e","r",":"," ","/","i"," ","v","a","l","u","e"," ","-"," ","r","e","q","u","i","r","e","d"," ","i","n","s","t","a","n","c","e"," ","n","o","t"," ","f","o","u","n","d",".">>,
      <<"I","n","v","a","l","i","d"," ","i","n","s","t","a","n","c","e","-","i","d","e","n","t","i","f","i","e","r"," ","\"","/","i","\""," ","v","a","l","u","e"," ","-"," ","s","y","n","t","a","x"," ","e","r","r","o","r",".">>,
      <<"I","n","v","a","l","i","d"," ","i","n","s","t","a","n","c","e","-","i","d","e","n","t","i","f","i","e","X"," ","\"","/","i","\""," ","v","a","l","u","e"," ","-"," ","r","e","q","u","i","r","e","d"," ","i","n","s","t","a","n","c","e"," ","n","o","t"," ","f","o","u","n","d",".">>,
      <<"M","a","n","d","a","t","o","r","y"," ","c","h","o","i","c","e"," ","c","h"," ","m","i","s","s","i","n","g",".">>,
      <<"M","a","n","d","a","t","o","r","y"," ","n","o","d","e"," ","\"","n","\""," ","i","n","s","t","a","n","c","e"," ","d","o","e","s"," ","n","o","t"," ","e","x","i","s","t",".">>,
      <<"S","o","m","e"," ","o","t","h","e","r"," ","v","a","l","i","d","a","t","i","o","n"," ","f","a","i","l","u","r","e",".">> }

\* The messages the specification of the translators quotes.
QuotedMessages ==
    { <<"U","n","i","q","u","e"," ","d","a","t","a"," ","l","e","a","f","(","s",")"," ","\"","k","\""," ","d","a","t","a"," ","l","o","c","a","t","i","o","n"," ","/","a","/","b","/","c","\"",".">>,
      <<"M","a","n","d","a","t","o","r","y"," ","c","h","o","i","c","e"," ","c","h"," ","m","i","s","s","i","n","g","."," ","S","c","h","e","m","a"," ","l","o","c","a","t","i","o","n"," ","/","x","/","y",".">>,
      <<"I","n","v","a","l","i","d"," ","l","e","a","f","r","e","f"," ","v","a","l","u","e"," ","\"","f","o","o","\""," ","-"," ","n","o"," ","e","x","i","s","t","i","n","g"," ","t","a","r","g","e","t"," ","i","n","s","t","a","n","c","e"," ","\"","/","t","\""," ","d","a","t","a"," ","l","o","c","a","t","i","o","n"," ","/","p","/","q","\"",".">>,
      <<"M","o","d","u","l","e"," ","\"","m","\""," ","i","s"," ","D","S","-","l","o","c","k","e","d"," ","b","y"," ","s","e","s","s","i","o","n"," ","7">> }

EditMessages == {s \o l : s \in Sentences, l \in Locations}

Messages == LockMessages \cup EditMessages \cup QuotedMessages

----------------------------------------------------------------------------
(* The translators *)

Init ==
    /\ message \in Messages
    /\ registry \in Registries
    /\ sink = <<>>
    /\ lookups = <<>>
    /\ op = "none"
    /\ path = NULL
    /\ ub = "none"
    /\ pc = "ready"

np_err_sr2nc_lock_denied ==
    /\ pc = "ready"
    /\ op' = "lock_denied"
    /\ LET str == LockedMarker
           ptr == strstr(message, str)
       IN  IF ptr = NullPtr
           THEN /\ sink' = sink
                /\ lookups' = lookups
           ELSE LET id == atoi(message, ptr + strlen(str))
                    nc_sess == np_get_nc_sess_by_id(id)
                    buf == sprintf_u32(IF nc_sess # NULL
                                       THEN nc_session_get_id(nc_sess[1])
                                       ELSE 0)
                IN  /\ lookups' = Append(lookups, id)
                    /\ sink' = sr_session_set_netconf_error(sink, "protocol",
                            "lock-denied", NULL, NULL, LockDeniedMsg,
                            <<<<"session-id", buf>>>>)
    /\ pc' = "returned"
    /\ UNCHANGED <<message, registry, path, ub>>

np_err_sr2nc_in_use ==
    /\ pc = "ready"
    /\ op' = "in_use"
    /\ LET str == LockedMarker
           ptr == strstr(message, str)
       IN  IF ptr = NullPtr
           THEN /\ sink' = sink
                /\ lookups' = lookups
           ELSE LET id == atoi(message, ptr + strlen(str))
                    nc_sess == np_get_nc_sess_by_id(id)
                    buf == sprintf_u32(IF nc_sess # NULL
                                       THEN nc_session_get_id(nc_sess[1])
                                       ELSE 0)
                IN  /\ lookups' = Append(lookups, id)
                    /\ sink' = sr_session_set_netconf_error(sink, "protocol",
                            "in-use", NULL, NULL, InUseMsg,
                            <<<<"session-id", buf>>>>)
    /\ pc' = "returned"
    /\ UNCHANGED <<message, registry, path, ub>>

\* A mutant of GetPath: "Schema location " is looked for first.
GetPath_schema_first(msg) ==
    LET data == strstr(msg, DataLocation)
        schema == strstr(msg, SchemaLocation)
        ptr == IF schema # NullPtr THEN schema + 16
               ELSE IF data # NullPtr THEN data + 14
               ELSE NullPtr
    IN  IF ptr # NullPtr
        THEN Some(strndup(At(msg, ptr), SizeSub(strlen(At(msg, ptr)), 2)))
        ELSE NULL

\* "get path": the text after the location marker less its last two
\* characters, or NULL when the message has no marker.
GetPath(msg) ==
    LET data == strstr(msg, DataLocation)
        schema == strstr(msg, SchemaLocation)
        ptr == IF data # NullPtr THEN data + 14
               ELSE IF schema # NullPtr THEN schema + 16
               ELSE NullPtr
    IN  IF ptr # NullPtr
        THEN Some(strndup(At(msg, ptr), SizeSub(strlen(At(msg, ptr)), 2)))
        ELSE NULL

\* assert(p), then the NETCONF error set and the return.
AssertPathAndSet(p, type, tag, app_tag, err_path, msg, info) ==
    IF p = NULL
    THEN /\ pc' = "assert_path"
         /\ sink' = sink
    ELSE /\ pc' = "returned"
         /\ sink' = sr_session_set_netconf_error(sink, type, tag, app_tag,
                        err_path, msg, info)

\* A failed assertion on the quote that opens the value.
AssertValueFails ==
    /\ pc' = "assert_value"
    /\ sink' = sink

\* The call ends in the middle of undefined behaviour.
Crash ==
    /\ pc' = "crashed"
    /\ sink' = sink

np_err_sr2nc_edit ==
    /\ pc = "ready"
    /\ op' = "edit"
    /\ path' = GetPath(message)
    /\ LET msg == message
           p == GetPath(message)
       IN  IF strncmp_eq(msg, UniquePrefix, 19)
           THEN /\ ub' = ub
                /\ AssertPathAndSet(p, "protocol", "operation-failed",
                       Some("data-not-unique"), NULL, UniqueMsg,
                       <<<<"non-unique", p[1]>>>>)
           ELSE IF strncmp_eq(msg, TooManyPrefix, 8)
           THEN /\ ub' = ub
                /\ AssertPathAndSet(p, "protocol", "operation-failed",
                       Some("too-many-elements"), p, TooManyMsg, <<>>)
           ELSE IF strncmp_eq(msg, TooFewPrefix, 7)
           THEN /\ ub' = ub
                /\ AssertPathAndSet(p, "protocol", "operation-failed",
                       Some("too-few-elements"), p, TooFewMsg, <<>>)
           ELSE IF strncmp_eq(msg, MustPrefix, 14)
           THEN LET ptr == strrchr(msg, "(")
                IN  IF ptr # NullPtr
                    THEN /\ ub' = ub
                         /\ AssertPathAndSet(p, "protocol", "operation-failed",
                                Some("must-violation"), p,
                                strndup(msg, ptr - 1), <<>>)
                    ELSE \* --ptr on NULL, then ptr - err->message: the
                         \* length is whatever the build makes of it
                         /\ ub' = "null_arithmetic"
                         /\ \/ Crash
                            \/ \E n \in 0..Len(msg) :
                                  AssertPathAndSet(p, "protocol",
                                      "operation-failed",
                                      Some("must-violation"), p,
                                      strndup(msg, n), <<>>)
           ELSE IF /\ strncmp_eq(msg, LeafrefPrefix, 21)
                   /\ strstr(msg, LeafrefReason) # NullPtr
           THEN IF msg[22 + 1] # "\""
                THEN /\ ub' = ub
                     /\ AssertValueFails
                ELSE LET ptr == strchr(msg, 23, "\"")
                     IN  IF ptr # NullPtr
                         THEN /\ ub' = ub
                              /\ AssertPathAndSet(p, "protocol",
                                     "data-missing", Some("instance-required"),
                                     p,
                                     LeafrefMsg(strndup(At(msg, 23), ptr - 23)),
                                     <<>>)
                         ELSE \* the precision NULL - (err->message + 23)
                              /\ ub' = "null_arithmetic"
                              /\ \/ Crash
                                 \/ \E n \in 0..Len(At(msg, 23)) :
                                       AssertPathAndSet(p, "protocol",
                                           "data-missing",
                                           Some("instance-required"), p,
                                           LeafrefMsg(strndup(At(msg, 23), n)),
                                           <<>>)
           ELSE IF /\ strncmp_eq(msg, InstidPrefix, 26)
                   /\ strstr(msg, InstidReason) # NullPtr
           THEN IF msg[28 + 1] # "\""
                THEN /\ ub' = ub
                     /\ AssertValueFails
                ELSE LET ptr == strchr(msg, 29, "\"")
                     IN  IF ptr # NullPtr
                         THEN /\ ub' = ub
                              /\ AssertPathAndSet(p, "protocol",
                                     "data-missing", Some("instance-required"),
                                     p,
                                     InstidMsg(strndup(At(msg, 29), ptr - 29)),
                                     <<>>)
                         ELSE \* the precision NULL - (err->message + 29)
                              /\ ub' = "null_arithmetic"
                              /\ \/ Crash
                                 \/ \E n \in 0..Len(At(msg, 29)) :
                                       AssertPathAndSet(p, "protocol",
                                           "data-missing",
                                           Some("instance-required"), p,
                                           InstidMsg(strndup(At(msg, 29), n)),
                                           <<>>)
           ELSE IF strncmp_eq(msg, ChoicePrefix, 16)
           THEN IF p = NULL
                THEN \* strrchr(path, '/') and strndup(path, ...) read the
                     \* NULL path before assert(path) is reached: the read
                     \* traps, or goes through and the assertion fails
                     /\ ub' = "null_path_read"
                     /\ \/ Crash
                        \/ AssertPathAndSet(p, "protocol", "data-missing",
                               Some("mandatory-choice"), NULL, ChoiceMsg, <<>>)
                ELSE LET ptr == strrchr(p[1], "/")
                     IN  IF ptr # NullPtr
                         THEN /\ ub' = ub
                              /\ AssertPathAndSet(p, "protocol",
                                     "data-missing", Some("mandatory-choice"),
                                     Some(strndup(p[1],
                                                  IF ptr = 0 THEN 1 ELSE ptr)),
                                     ChoiceMsg,
                                     <<<<"missing-choice", p[1]>>>>)
                         ELSE \* the length NULL - path
                              /\ ub' = "null_arithmetic"
                              /\ \/ Crash
                                 \/ \E n \in 0..Len(p[1]) :
                                       AssertPathAndSet(p, "protocol",
                                           "data-missing",
                                           Some("mandatory-choice"),
                                           Some(strndup(p[1], n)), ChoiceMsg,
                                           <<<<"missing-choice", p[1]>>>>)
           ELSE /\ ub' = ub
                /\ pc' = "returned"
                /\ sink' = sr_session_dup_error(sink, msg)
    /\ UNCHANGED <<message, registry, lookups>>

Next ==
    \/ np_err_sr2nc_lock_denied
    \/ np_err_sr2nc_in_use
    \/ np_err_sr2nc_edit

Spec == Init /\ [][Next]_vars

----------------------------------------------------------------------------
(* Properties.  Their texts and text predicates are stated on their own,   *)
(* apart from the definitions of the translators above.                    *)

TxtLocked == <<"D","S","-","l","o","c","k","e","d"," ","b","y"," ","s","e","s","s","i","o","n"," ">>
TxtData == <<"d","a","t","a"," ","l","o","c","a","t","i","o","n"," ">>
TxtSchema == <<"S","c","h","e","m","a"," ","l","o","c","a","t","i","o","n"," ">>
TxtUnique == <<"U","n","i","q","u","e"," ","d","a","t","a"," ","l","e","a","f","(","s",")">>
TxtTooMany == <<"T","o","o"," ","m","a","n","y">>
TxtTooFew == <<"T","o","o"," ","f","e","w">>
TxtMust == <<"M","u","s","t"," ","c","o","n","d","i","t","i","o","n">>
TxtLeafref == <<"I","n","v","a","l","i","d"," ","l","e","a","f","r","e","f"," ","v","a","l","u","e">>
TxtLeafrefReason == <<"n","o"," ","e","x","i","s","t","i","n","g"," ","t","a","r","g","e","t"," ","i","n","s","t","a","n","c","e">>
TxtInstid == <<"I","n","v","a","l","i","d"," ","i","n","s","t","a","n","c","e","-","i","d","e","n","t","i","f","i","e","r">>
TxtInstidReason == <<"r","e","q","u","i","r","e","d"," ","i","n","s","t","a","n","c","e"," ","n","o","t"," ","f","o","u","n","d">>
TxtChoice == <<"M","a","n","d","a","t","o","r","y"," ","c","h","o","i","c","e">>

Decimals == <<"0", "1", "2", "3", "4", "5", "6", "7", "8", "9">>

\* text occurs in s at the 1-based position i
Occurs(text, s, i) ==
    /\ i + Len(text) - 1 <= Len(s)
    /\ SubSeq(s, i, i + Len(text) - 1) = text

Contains(s, text) == \E i \in 1..Len(s) : Occurs(text, s, i)

FirstAt(s, text) ==
    CHOOSE i \in 1..Len(s) :
        Occurs(text, s, i) /\ \A j \in 1..(i - 1) : ~Occurs(text, s, j)

\* What follows the first occurrence of text in s.
After(s, text) == SubSeq(s, FirstAt(s, text) + Len(text), Len(s))

StartsWith(s, text) == Occurs(text, s, 1)

\* The first n characters of s are those of text.
Begins(s, text, n) == Len(s) >= n /\ SubSeq(s, 1, n) = SubSeq(text, 1, n)

HasChar(s, c) == \E i \in 1..Len(s) : s[i] = c

LastChar(s, c) == CHOOSE i \in 1..Len(s) :
    s[i] = c /\ \A j \in (i + 1)..Len(s) : s[j] # c

HasMarker(s) == Contains(s, TxtData) \/ Contains(s, TxtSchema)

\* The decimal numeral of n < 100.
Numeral(n) ==
    IF n < 10 THEN <<Decimals[n + 1]>>
    ELSE <<Decimals[(n \div 10) + 1], Decimals[(n % 10) + 1]>>

\* The text rest begins with the decimal integer n.
BeginsWithNumber(rest, n) ==
    /\ StartsWith(rest, Numeral(n))
    /\ Len(rest) > Len(Numeral(n)) =>
            ~HasChar(Decimals, rest[Len(Numeral(n)) + 1])

\* The first marker of the message is followed by the decimal integer n.
NamesSession(s, n) ==
    /\ Contains(s, TxtLocked)
    /\ BeginsWithNumber(After(s, TxtLocked), n)

\* The decimal protocol id of the session the registry resolves n to, or "0".
ResolvedId(n) ==
    IF \E s \in registry : s.sr_id = n
    THEN Numeral((CHOOSE s \in registry : s.sr_id = n).nc_id)
    ELSE <<"0">>

Called(o) == op = o /\ pc # "ready"

\* The sink holds one error, set with these fields.
OneError(type, tag, app_tag, err_path, info) ==
    /\ Len(sink) = 1
    /\ sink[1].call = "set_netconf_error"
    /\ sink[1].type = type
    /\ sink[1].tag = tag
    /\ sink[1].app_tag = app_tag
    /\ sink[1].path = err_path
    /\ sink[1].info = info

\* C1: when the first message holds the marker "DS-locked by session "
\* followed by a decimal integer n, np_err_sr2nc_lock_denied sets exactly one
\* error of type protocol and tag lock-denied, without app-tag and path, whose
\* only info element session-id is the decimal NETCONF id of the session the
\* registry resolves n to, or "0" when it resolves none; np_err_sr2nc_in_use
\* does the same with the tag in-use.
C1_SessionIdOfLockHolder ==
    ((Called("lock_denied") \/ Called("in_use"))
            /\ Contains(message, TxtLocked)) =>
        LET rest == After(message, TxtLocked)
        IN  \A n \in 0..99 :
                BeginsWithNumber(rest, n) =>
                    /\ pc = "returned"
                    /\ OneError("protocol",
                                IF op = "lock_denied" THEN "lock-denied"
                                ELSE "in-use",
                                NULL, NULL,
                                <<<<"session-id", ResolvedId(n)>>>>)

\* A lock held by session 2, which the registry resolves to NETCONF id 14.
C1_Witness ==
    /\ Called("lock_denied")
    /\ NamesSession(message, 2)
    /\ Len(sink) = 1
    /\ sink[1].info = <<<<"session-id", <<"1","4">>>>>>

\* C2: when the first message does not hold the marker, the two lock
\* translators set no error on the sink and never ask the session registry.
C2_NoMarkerNoEffect ==
    ((Called("lock_denied") \/ Called("in_use"))
            /\ ~Contains(message, TxtLocked)) =>
        /\ sink = <<>>
        /\ lookups = <<>>

\* A message that misses the marker by its last blank.
C2_Witness ==
    /\ Called("in_use")
    /\ pc = "returned"
    /\ Contains(message, <<"D","S","-","l","o","c","k","e","d"," ","b","y"," ","s","e","s","s","i","o","n">>)
    /\ ~Contains(message, TxtLocked)
    /\ sink = <<>>

\* p cut at its last '/', or the root when that is its first character.
Parent(p) ==
    IF LastChar(p, "/") = 1 THEN <<"/">>
    ELSE SubSeq(p, 1, LastChar(p, "/") - 1)

\* The error of a missing mandatory choice at p.
ChoiceError(p) ==
    /\ pc = "returned"
    /\ OneError("protocol", "data-missing", Some("mandatory-choice"),
                Some(Parent(p)), <<<<"missing-choice", p>>>>)
    /\ sink[1].msg = <<"M","i","s","s","i","n","g"," ","m","a","n","d","a","t","o","r","y"," ","c","h","o","i","c","e",".">>

\* A "Mandatory choice" message whose only marker is "Schema location ".
ChoiceAtSchema ==
    /\ Called("edit")
    /\ StartsWith(message, TxtChoice)
    /\ ~Contains(message, TxtData)
    /\ Contains(message, TxtSchema)

\* C3 as claimed: a "Mandatory choice" message that ends with
\* "Schema location ", a path P and a closing "." gives path = P: the info
\* element missing-choice is P and the error path is P cut at its last '/'.
\* It is stated for the calls that stay within defined behaviour.
C3_ChoicePathBeforeOneDot ==
    (ChoiceAtSchema /\ ub = "none") =>
        LET r == After(message, TxtSchema)
            P == SubSeq(r, 1, Len(r) - 1)
        IN  (Len(r) >= 2 /\ r[Len(r)] = "." /\ HasChar(P, "/")) =>
                ChoiceError(P)

\* C3 as amended: the path is what follows "Schema location " less the two
\* characters that close the message; when that path P holds a '/', the info
\* element missing-choice is P and the error path is P cut at its last '/'
\* (the root when that '/' is the first character).  The quoted message,
\* closed by the one ".", gives missing-choice "/x/" and error path "/x".
C3_ChoicePathBeforeTwoClosers ==
    ChoiceAtSchema =>
        LET r == After(message, TxtSchema)
            P == SubSeq(r, 1, Len(r) - 2)
        IN  (Len(r) >= 2 /\ HasChar(P, "/")) => ChoiceError(P)

\* The quoted message and what it is translated to.
C3_Witness ==
    /\ Called("edit")
    /\ message = <<"M","a","n","d","a","t","o","r","y"," ","c","h","o","i","c","e"," ","c","h"," ","m","i","s","s","i","n","g","."," ","S","c","h","e","m","a"," ","l","o","c","a","t","i","o","n"," ","/","x","/","y",".">>
    /\ Len(sink) = 1
    /\ sink[1].info = <<<<"missing-choice", <<"/","x","/">>>>>>
    /\ sink[1].path = Some(<<"/","x">>)

\* A "Must condition" message with a location marker and a '('.
MustAtLocation ==
    /\ Called("edit")
    /\ StartsWith(message, TxtMust)
    /\ HasMarker(message)
    /\ HasChar(message, "(")

\* The message up to, and without, the character before its last '('.
BeforeLastParen(s) == SubSeq(s, 1, LastChar(s, "(") - 2)

\* C4 as claimed: a "Must condition" message with a location marker gives an
\* error whose error-tag is must-violation, whose path is the extracted path
\* and whose message is the text before the character before the last '('.
C4_MustViolationTag ==
    MustAtLocation =>
        /\ Len(sink) = 1
        /\ sink[1].call = "set_netconf_error"
        /\ sink[1].tag = "must-violation"
        /\ sink[1].path = path
        /\ sink[1].msg = BeforeLastParen(message)

\* C4 as amended: the error-tag is operation-failed and must-violation is the
\* error-app-tag; path and message are as claimed, for a message with a '('.
C4_MustViolationAppTag ==
    MustAtLocation =>
        /\ pc = "returned"
        /\ path # NULL
        /\ OneError("protocol", "operation-failed", Some("must-violation"),
                    path, <<>>)
        /\ sink[1].msg = BeforeLastParen(message)

\* A condition that itself holds a '(': the last one opens the annotation.
C4_Witness ==
    /\ Called("edit")
    /\ message = <<"M","u","s","t"," ","c","o","n","d","i","t","i","o","n"," ","\"","f","(","c",")","\""," ","n","o","t"," ","s","a","t","i","s","f","i","e","d","."," ","(","d","a","t","a"," ","l","o","c","a","t","i","o","n"," ","/","a",".",")">>
    /\ Len(sink) = 1
    /\ sink[1].msg = <<"M","u","s","t"," ","c","o","n","d","i","t","i","o","n"," ","\"","f","(","c",")","\""," ","n","o","t"," ","s","a","t","i","s","f","i","e","d",".">>
    /\ sink[1].path = Some(<<"/","a">>)

\* The ordered rules as np_err_sr2nc_edit tests them.
RuleMatches(s) ==
    \/ Begins(s, TxtUnique, 19)
    \/ Begins(s, TxtTooMany, 8)
    \/ Begins(s, TxtTooFew, 7)
    \/ Begins(s, TxtMust, 14)
    \/ Begins(s, TxtLeafref, 21) /\ Contains(s, TxtLeafrefReason)
    \/ Begins(s, TxtInstid, 26) /\ Contains(s, TxtInstidReason)
    \/ Begins(s, TxtChoice, 16)

\* The error of the source session, copied once and nothing else.
OnlyCopied ==
    /\ pc = "returned"
    /\ sink = <<[call |-> "dup_error", err |-> message]>>

\* C5 as claimed: a message that matches no rule is answered by exactly one
\* verbatim copy of the source error and no error set, with or without a
\* location marker; every other message by exactly one error set and no copy.
C5_CopyOrExactlyOneError ==
    Called("edit") =>
        IF RuleMatches(message)
        THEN Len(sink) = 1 /\ sink[1].call = "set_netconf_error"
        ELSE OnlyCopied

\* C5 as amended: a message that matches no rule is answered by exactly one
\* verbatim copy and no error set; every other message by no copy and at most
\* one error set: exactly one when the call returns, none when an assertion
\* or undefined behaviour ends it.
C5_CopyOrAtMostOneError ==
    Called("edit") =>
        IF RuleMatches(message)
        THEN /\ Len(sink) <= 1
             /\ \A i \in 1..Len(sink) : sink[i].call = "set_netconf_error"
             /\ (pc = "returned") <=> (Len(sink) = 1)
        ELSE OnlyCopied

\* An "Invalid instance-identifier" message without "required instance not
\* found", with a location marker: the source error is copied.
C5_Witness ==
    /\ Called("edit")
    /\ message = <<"I","n","v","a","l","i","d"," ","i","n","s","t","a","n","c","e","-","i","d","e","n","t","i","f","i","e","r"," ","\"","/","i","\""," ","v","a","l","u","e"," ","-"," ","s","y","n","t","a","x"," ","e","r","r","o","r","."," ","(","d","a","t","a"," ","l","o","c","a","t","i","o","n"," ","/","a",".",")">>
    /\ OnlyCopied

\* The text that follows the location marker the path is taken from.
MarkedText(s) ==
    IF Contains(s, TxtData) THEN After(s, TxtData) ELSE After(s, TxtSchema)

\* C6: a "Unique data leaf(s)" message with a location marker gives the tag
\* operation-failed, the app-tag data-not-unique, the message "Unique
\* constraint violated.", no path, and the only info element non-unique, whose
\* value is the text after the marker less its last two characters.
C6_NonUniqueLessTwo ==
    (Called("edit") /\ StartsWith(message, TxtUnique) /\ HasMarker(message)) =>
        /\ pc = "returned"
        /\ OneError("protocol", "operation-failed", Some("data-not-unique"),
                    NULL,
                    <<<<"non-unique",
                        SubSeq(MarkedText(message), 1,
                               Len(MarkedText(message)) - 2)>>>>)
        /\ sink[1].msg = <<"U","n","i","q","u","e"," ","c","o","n","s","t","r","a","i","n","t"," ","v","i","o","l","a","t","e","d",".">>

\* The 1-based position of the quote that closes a value opened at `from`.
ClosingQuote(s, from) ==
    CHOOSE j \in (from + 1)..Len(s) :
        s[j] = "\"" /\ \A k \in (from + 1)..(j - 1) : s[k] # "\""

\* C7: an "Invalid leafref value" message with a double quote at index 22,
\* "no existing target instance" and a location marker gives the tag
\* data-missing, the app-tag instance-required, the extracted path, and the
\* message 'Required leafref target with value "V" missing.', V being the text
\* from index 23 up to the next double quote.
C7_LeafrefTarget ==
    (/\ Called("edit")
     /\ StartsWith(message, TxtLeafref)
     /\ Contains(message, TxtLeafrefReason)
     /\ HasMarker(message)
     /\ message[23] = "\""
     /\ HasChar(SubSeq(message, 24, Len(message)), "\"")) =>
        /\ pc = "returned"
        /\ path # NULL
        /\ OneError("protocol", "data-missing", Some("instance-required"),
                    path, <<>>)
        /\ sink[1].msg =
              <<"R","e","q","u","i","r","e","d"," ","l","e","a","f","r","e","f"," ","t","a","r","g","e","t"," ","w","i","t","h"," ","v","a","l","u","e"," ","\"">>
                \o SubSeq(message, 24, ClosingQuote(message, 23) - 1)
                \o <<"\""," ","m","i","s","s","i","n","g",".">>

\* The quoted leafref message and what it is translated to.
C7_Witness ==
    /\ Called("edit")
    /\ message = <<"I","n","v","a","l","i","d"," ","l","e","a","f","r","e","f"," ","v","a","l","u","e"," ","\"","f","o","o","\""," ","-"," ","n","o"," ","e","x","i","s","t","i","n","g"," ","t","a","r","g","e","t"," ","i","n","s","t","a","n","c","e"," ","\"","/","t","\""," ","d","a","t","a"," ","l","o","c","a","t","i","o","n"," ","/","p","/","q","\"",".">>
    /\ Len(sink) = 1
    /\ sink[1].msg = <<"R","e","q","u","i","r","e","d"," ","l","e","a","f","r","e","f"," ","t","a","r","g","e","t"," ","w","i","t","h"," ","v","a","l","u","e"," ","\"","f","o","o","\""," ","m","i","s","s","i","n","g",".">>
    /\ sink[1].path = Some(<<"/","p","/","q">>)

\* C8: the error 'Required instance-identifier "V" missing.' is set only for
\* a message that starts with the whole of "Invalid instance-identifier" and
\* holds "required instance not found".
C8_InstidNeedsWholePrefix ==
    \A i \in 1..Len(sink) :
        (/\ sink[i].call = "set_netconf_error"
         /\ StartsWith(sink[i].msg, <<"R","e","q","u","i","r","e","d"," ","i","n","s","t","a","n","c","e","-","i","d","e","n","t","i","f","i","e","r"," ">>)) =>
            /\ StartsWith(message, TxtInstid)
            /\ Contains(message, TxtInstidReason)

\* p is the text r less at most its last two characters.
TakenFrom(p, r) ==
    /\ Len(p) <= Len(r)
    /\ Len(r) - Len(p) <= 2
    /\ p = SubSeq(r, 1, Len(p))

\* C9: "data location " comes first: when the message holds it, the path is
\* taken from after its first occurrence, wherever "Schema location " may
\* occur; "Schema location " serves only when "data location " occurs
\* nowhere; and the path is absent only when neither occurs.
C9_DataLocationFirst ==
    Called("edit") =>
        /\ Contains(message, TxtData) =>
                path # NULL /\ TakenFrom(path[1], After(message, TxtData))
        /\ (~Contains(message, TxtData) /\ Contains(message, TxtSchema)) =>
                path # NULL /\ TakenFrom(path[1], After(message, TxtSchema))
        /\ (path = NULL) <=> ~HasMarker(message)

\* "Schema location " occurs before "data location ": the path is the latter's.
C9_Witness ==
    /\ Called("edit")
    /\ Contains(message, TxtData)
    /\ Contains(message, TxtSchema)
    /\ FirstAt(message, TxtSchema) < FirstAt(message, TxtData)
    /\ path = Some(<<"/","a">>)

\* A rule that requires a path matches, and what else the rule expects of the
\* message (the '(' of a must condition, the quotes of a value) is there.
PathRuleMatches(s) ==
    \/ StartsWith(s, TxtUnique)
    \/ StartsWith(s, TxtTooMany)
    \/ StartsWith(s, TxtTooFew)
    \/ StartsWith(s, TxtMust) /\ HasChar(s, "(")
    \/ /\ StartsWith(s, TxtLeafref)
       /\ Contains(s, TxtLeafrefReason)
       /\ s[23] = "\""
       /\ HasChar(SubSeq(s, 24, Len(s)), "\"")
    \/ /\ StartsWith(s, TxtInstid)
       /\ Contains(s, TxtInstidReason)
       /\ s[29] = "\""
       /\ HasChar(SubSeq(s, 30, Len(s)), "\"")
    \/ StartsWith(s, TxtChoice)

\* C10: when a rule that requires a path matches a message without a location
\* marker, the call stops at assert(path): the absent path has not been read,
\* and nothing has been set on the sink.
C10_StopsAtPathAssert ==
    (Called("edit") /\ PathRuleMatches(message) /\ ~HasMarker(message)) =>
        /\ pc = "assert_path"
        /\ ub = "none"
        /\ sink = <<>>

====
